---------------------------- MODULE Spec2Model ----------------------------
(***************************************************************************)
(* A model of the Appeals cog of PrisonWarden (src/cogs/appeals.py): the   *)
(* stale-invite selectors and the purge command, the appeal roster of the  *)
(* appeals command, and the note text codec with the notes commands.       *)
(*                                                                         *)
(* Time is counted in ticks, TicksPerDay ticks to a day, so that the       *)
(* truncation of timedelta.days is part of the model.  A text is a         *)
(* sequence of code points.                                                *)
(***************************************************************************)
EXTENDS Integers, Sequences, FiniteSets, TLC

VARIABLES
    invites,      \* the active invites of the guild: a sequence of records
    now,          \* datetime.datetime.utcnow(), in ticks
    policy,       \* the threshold policy (in days) the caller regards as active
    op,           \* the operation that ran last
    ret,          \* the stale invites the last selector call returned
    nextId,       \* the id of the next invite the guild creates
    attempts,     \* purge: the ids whose invite.delete() was awaited, in order
    failed,       \* purge: the ids whose invite.delete() raised HTTPException
    revoked,      \* purge: the counter of the loop
    reply,        \* the message the last command sent
    appeal_roles, \* the role ids of the appeals_roles rows of the guild
    guild_roles,  \* guild.get_role: role id -> the role and its members
    joined_at,    \* member.joined_at of every member of the guild
    appeal_id,    \* the argument of the appeals command: <<>> is None
    members,      \* appeals: the roster, a sequence of member ids
    appeal,       \* appeals: the member the Appeal Info reply is about
    range_named,  \* appeals: the range the out-of-range warning names
    text,         \* codec: the text given
    stored,       \* codec: urllib.parse.quote_plus of the text
    decoded,      \* codec: urllib.parse.unquote_plus of what was stored
    notes,        \* the rows of the notes table of the guild, oldest first
    note_member,  \* notes: the member the last notes command was about
    shown,        \* notes get: the note texts displayed, in order
    note_id_arg,  \* the note_id argument of the last command, if notes rename
    new_name_arg, \* the new_name argument of the last command, if notes rename
    last_joined,  \* appeals: the join time the Last Joined field shows
    joins,        \* the rows of the joins table of the guild, oldest first
    join_events,  \* the number of member-join events the cog was given
    modlog_joins, \* whether the guild has a joins modlog channel set
    system_channel, \* what the config row and its system channel are like
    targets,      \* banall, kickall, unbanall: the users given
    bulk_fails,   \* the targets whose ban, kick or unban call raises
    issued,       \* the targets the call was issued for, in order
    succeeded,    \* the banned, kicked or unbanned list of the command
    invite_channel, \* whether the guild has a valid invite channel set
    mode,         \* invite: the mode argument, <<>> is None
    sent_invite,  \* invite: the invite the reply carries, <<>> for none
    using_stale_invite, \* invite: whether the reply is marked as stale
    created,      \* invite: the invites channel.create_invite made
    pc,           \* each running invite command's place in its handler
    stale_invites, \* each running invite command's list of stale invites
    handed_out    \* every invite a reply carried, with how many replies

selectVars == <<invites, now, policy, op, ret>>
purgeVars == <<nextId, attempts, failed, revoked, reply>>
rosterVars ==
    <<appeal_roles, guild_roles, joined_at, appeal_id, members, appeal,
      range_named, last_joined>>

selectVarsButOp == <<invites, now, policy, ret>>
purgeVarsButReply == <<nextId, attempts, failed, revoked>>
codecVars == <<text, stored, decoded>>
notesVars == <<notes, note_member, shown, note_id_arg, new_name_arg>>
joinVars == <<joins, join_events, modlog_joins, system_channel>>
bulkVars == <<targets, bulk_fails, issued, succeeded>>
inviteCmdVars ==
    <<invite_channel, mode, sent_invite, using_stale_invite, created>>
handoutVars == <<pc, stale_invites, handed_out>>

\* what the appeals, codec and notes operations leave alone besides each
\* other's variables
restVars == <<joinVars, bulkVars, inviteCmdVars, handoutVars>>

\* what the selectors, the clock, the guild's invite events and the purge
\* leave alone
nonInviteVars == <<rosterVars, codecVars, notesVars, restVars>>

vars ==
    <<selectVars, purgeVars, rosterVars, codecVars, notesVars, restVars>>

----------------------------------------------------------------------------
(* Bounds of the model *)

MaxInvites == 3        \* longest invite list
MaxCreated == 1        \* latest creation time of an invite, in ticks
TicksPerDay == 2       \* clock resolution

(* Program constants *)

StaleDays == 7         \* _is_stale_invite: .days >= 7

----------------------------------------------------------------------------
(* Variables a specification leaves alone keep these values *)

RosterIdle ==
    /\ appeal_roles = <<>>
    /\ guild_roles = <<>>
    /\ joined_at = <<>>
    /\ appeal_id = <<>>
    /\ members = <<>>
    /\ appeal = "none"
    /\ range_named = <<>>
    /\ last_joined = 0

CodecIdle ==
    /\ text = <<>>
    /\ stored = <<>>
    /\ decoded = <<>>

NotesIdle ==
    /\ notes = <<>>
    /\ note_member = "none"
    /\ shown = <<>>
    /\ note_id_arg = 0
    /\ new_name_arg = <<>>

JoinIdle ==
    /\ joins = <<>>
    /\ join_events = 0
    /\ modlog_joins = FALSE
    /\ system_channel = "none"

BulkIdle ==
    /\ targets = <<>>
    /\ bulk_fails = {}
    /\ issued = <<>>
    /\ succeeded = <<>>

InviteCmdIdle ==
    /\ invite_channel = FALSE
    /\ mode = <<>>
    /\ sent_invite = <<>>
    /\ using_stale_invite = FALSE
    /\ created = <<>>

HandoutIdle ==
    /\ pc = <<>>
    /\ stale_invites = <<>>
    /\ handed_out = {}

RestIdle == JoinIdle /\ BulkIdle /\ InviteCmdIdle /\ HandoutIdle

NonInviteIdle == RosterIdle /\ CodecIdle /\ NotesIdle /\ RestIdle

InviteIdle ==
    /\ invites = <<>>
    /\ now = 0
    /\ policy = StaleDays
    /\ ret = <<>>
    /\ nextId = 1
    /\ attempts = <<>>
    /\ failed = {}
    /\ revoked = 0

----------------------------------------------------------------------------
(* Invites *)

\* The two historical threshold policies, in days.
ThresholdPolicies == {1, StaleDays}

\* The attributes of a discord.Invite the cog reads.  max_uses is 1 for a
\* single-use invite.
InviteAttrs == [uses : 0..1, max_uses : 1..2, created_at : 0..MaxCreated]

\* Invite lists of a guild: the id of an invite is its identity (its code).
InviteLists ==
    UNION { { [i \in 1..n |-> [id |-> i, uses |-> f[i].uses,
                               max_uses |-> f[i].max_uses,
                               created_at |-> f[i].created_at]] :
              f \in [1..n -> InviteAttrs] } : n \in 0..MaxInvites }

\* The clock readings of the selector runs: within the first day and around
\* the threshold.
NowTimes ==
    { TicksPerDay - 1, StaleDays * TicksPerDay, StaleDays * TicksPerDay + 1 }

\* timedelta.days of (later - earlier): whole days, rounded down.
Days(later, earlier) == (later - earlier) \div TicksPerDay

\* _is_stale_invite with the 24 hours of the docstrings as the threshold.
is_stale_invite_one_day(invite, utcnow) ==
    /\ invite.uses = 0
    /\ invite.max_uses = 1
    /\ Days(utcnow, invite.created_at) >= 1

\* _is_stale_invite testing uses against max_uses instead of 0.
is_stale_invite_unused_left(invite, utcnow) ==
    /\ invite.uses < invite.max_uses
    /\ Days(utcnow, invite.created_at) >= StaleDays

_is_stale_invite(invite, utcnow) ==
    /\ invite.uses = 0
    /\ invite.max_uses = 1
    /\ Days(utcnow, invite.created_at) >= StaleDays

\* Python's sorted(seq, key=lambda i: i.created_at): stable, ascending.
\* Insert(s, x) puts x after every element whose key is <= x's.
RECURSIVE Insert(_, _)
Insert(s, x) ==
    IF s = <<>> THEN <<x>>
    ELSE IF s[Len(s)].created_at <= x.created_at THEN Append(s, x)
    ELSE Append(Insert(SubSeq(s, 1, Len(s) - 1), x), s[Len(s)])

\* sorted() left out: the list in the order the guild returned it.
sorted_by_created_at_identity(seq) == seq

RECURSIVE sorted_by_created_at(_)
sorted_by_created_at(seq) ==
    IF seq = <<>> THEN <<>>
    ELSE Insert(sorted_by_created_at(SubSeq(seq, 1, Len(seq) - 1)), seq[Len(seq)])

\* [invite for invite in invites if self._is_stale_invite(invite)]
RECURSIVE StaleOnly(_, _)
StaleOnly(seq, utcnow) ==
    IF seq = <<>> THEN <<>>
    ELSE LET rest == StaleOnly(SubSeq(seq, 1, Len(seq) - 1), utcnow)
             last == seq[Len(seq)]
         IN IF _is_stale_invite(last, utcnow) THEN Append(rest, last) ELSE rest

\* filter, then sort
_fetch_stale_one_time_invites(guildInvites, utcnow) ==
    sorted_by_created_at(StaleOnly(guildInvites, utcnow))

\* sort, then filter in a loop
_fetch_all_stale_single_use_invites(guildInvites, utcnow) ==
    StaleOnly(sorted_by_created_at(guildInvites), utcnow)

----------------------------------------------------------------------------
(* The selectors as operations on a drawn invite list *)

Range(s) == { s[i] : i \in 1..Len(s) }

InitSelect ==
    /\ invites \in InviteLists
    /\ now \in NowTimes
    /\ policy \in ThresholdPolicies
    /\ op = "none"
    /\ ret = <<>>
    /\ nextId = Len(invites) + 1
    /\ attempts = <<>>
    /\ failed = {}
    /\ revoked = 0
    /\ reply = "none"
    /\ NonInviteIdle

FetchStaleOneTime ==
    /\ op = "none"
    /\ op' = "fetch_stale_one_time"
    /\ ret' = _fetch_stale_one_time_invites(invites, now)
    /\ UNCHANGED <<invites, now, policy, purgeVars, nonInviteVars>>

FetchAllStale ==
    /\ op = "none"
    /\ op' = "fetch_all_stale"
    /\ ret' = _fetch_all_stale_single_use_invites(invites, now)
    /\ UNCHANGED <<invites, now, policy, purgeVars, nonInviteVars>>

NextSelect == FetchStaleOneTime \/ FetchAllStale

SpecSelect == InitSelect /\ [][NextSelect]_vars

----------------------------------------------------------------------------
(* Claims on the selectors *)

Selected == op \in {"fetch_stale_one_time", "fetch_all_stale"}

\* age >= threshold, the age and the threshold both in ticks
StaleBy(invite, days) ==
    /\ invite.uses = 0
    /\ invite.max_uses = 1
    /\ now - invite.created_at >= days * TicksPerDay

\* C1: both selectors return exactly the invites of the list with use count
\* 0, max-uses 1 and age of at least the threshold (7 days), each once;
\* an empty list or no match gives the empty sequence.
C1_ExactlyStale ==
    Selected =>
        /\ Range(ret) = { i \in Range(invites) : StaleBy(i, StaleDays) }
        /\ \A j, k \in 1..Len(ret) : ret[j] = ret[k] => j = k
        /\ (invites = <<>> => ret = <<>>)

\* three invites: one stale, one old but used or multi-use, one unused
\* single-use but younger than the threshold
C1_Witness ==
    /\ Selected
    /\ Len(invites) = 3
    /\ Len(ret) = 1
    /\ \E i \in Range(invites) :
          /\ i.uses = 1 \/ i.max_uses = 2
          /\ now - i.created_at >= StaleDays * TicksPerDay
    /\ \E i \in Range(invites) :
          /\ i.uses = 0 /\ i.max_uses = 1
          /\ now - i.created_at < StaleDays * TicksPerDay

\* C2: the returned sequence is sorted ascending by creation time.
C2_SortedByCreation ==
    Selected =>
        \A j \in 1..(Len(ret) - 1) : ret[j].created_at <= ret[j + 1].created_at

\* the guild returned two stale invites newest first
C2_Witness ==
    /\ Selected
    /\ Len(ret) >= 2
    /\ \E j, k \in 1..Len(invites) :
          /\ j < k
          /\ invites[j] \in Range(ret) /\ invites[k] \in Range(ret)
          /\ invites[j].created_at > invites[k].created_at

----------------------------------------------------------------------------
(* The guild's invites over time, and invites purge purge *)

\* The clock readings of a guild's history: its start, one day and the
\* threshold, each with the tick before or after.
ClockTimes ==
    { 0, TicksPerDay, StaleDays * TicksPerDay - 1, StaleDays * TicksPerDay,
      StaleDays * TicksPerDay + 1 }

\* guild.invites(): the active invites in the order the API gives them,
\* which the cog does not control.
Orderings(seq) ==
    { [j \in 1..Len(seq) |-> seq[f[j]]] :
        f \in { g \in [1..Len(seq) -> 1..Len(seq)] :
                  \A a, b \in 1..Len(seq) : g[a] = g[b] => a = b } }

\* seq without the invites whose id is in ids
RECURSIVE Without(_, _)
Without(seq, ids) ==
    IF seq = <<>> THEN <<>>
    ELSE IF Head(seq).id \in ids THEN Without(Tail(seq), ids)
    ELSE <<Head(seq)>> \o Without(Tail(seq), ids)

\* The loop of the purge with the try inside left out: the first
\* HTTPException ends the loop.
RECURSIVE PurgeLoopAbort(_, _)
PurgeLoopAbort(stale, fails) ==
    IF stale = <<>> THEN [attempts |-> <<>>, revoked |-> 0, deleted |-> {}]
    ELSE IF Head(stale).id \in fails
    THEN [attempts |-> <<Head(stale).id>>, revoked |-> 0, deleted |-> {}]
    ELSE LET after == PurgeLoopAbort(Tail(stale), fails)
         IN [attempts |-> <<Head(stale).id>> \o after.attempts,
             revoked |-> after.revoked + 1,
             deleted |-> after.deleted \cup {Head(stale).id}]

\* for invite in invites: try: await invite.delete(); revoked += 1
\*                         except discord.HTTPException: pass
\* fails holds the ids whose delete() raises.
RECURSIVE PurgeLoop(_, _)
PurgeLoop(stale, fails) ==
    IF stale = <<>> THEN [attempts |-> <<>>, revoked |-> 0, deleted |-> {}]
    ELSE LET before == PurgeLoop(SubSeq(stale, 1, Len(stale) - 1), fails)
             invite == stale[Len(stale)]
         IN IF invite.id \in fails
            THEN [attempts |-> Append(before.attempts, invite.id),
                  revoked |-> before.revoked,
                  deleted |-> before.deleted]
            ELSE [attempts |-> Append(before.attempts, invite.id),
                  revoked |-> before.revoked + 1,
                  deleted |-> before.deleted \cup {invite.id}]

InitInvites ==
    /\ invites = <<>>
    /\ now = 0
    /\ policy = StaleDays
    /\ op = "none"
    /\ ret = <<>>
    /\ nextId = 1
    /\ attempts = <<>>
    /\ failed = {}
    /\ revoked = 0
    /\ reply = "none"
    /\ NonInviteIdle

\* time passes
Tick ==
    /\ \E t \in ClockTimes : t > now /\ now' = t
    /\ op' = "tick"
    /\ UNCHANGED <<invites, policy, ret, purgeVars, nonInviteVars>>

\* someone creates an invite (the event on_invite_create reports)
CreateInvite ==
    /\ nextId <= MaxInvites
    /\ \E m \in 1..2 :
          invites' = Append(invites, [id |-> nextId, uses |-> 0,
                                      max_uses |-> m, created_at |-> now])
    /\ nextId' = nextId + 1
    /\ op' = "create"
    /\ UNCHANGED <<now, policy, ret, attempts, failed, revoked, reply, nonInviteVars>>

\* someone joins through an invite; the guild drops an invite that has
\* reached its max_uses (the event on_invite_delete reports)
UseInvite ==
    /\ \E j \in 1..Len(invites) :
          LET used == [invites[j] EXCEPT !.uses = @ + 1]
          IN invites' = IF used.uses >= used.max_uses
                        THEN Without(invites, {used.id})
                        ELSE [invites EXCEPT ![j] = used]
    /\ op' = "use"
    /\ UNCHANGED <<now, policy, ret, purgeVars, nonInviteVars>>

invites_purge_purge_command ==
    \E listing \in Orderings(invites) :
      LET stale == _fetch_all_stale_single_use_invites(listing, now)
      IN \E fails \in SUBSET { stale[j].id : j \in 1..Len(stale) } :
           LET done == PurgeLoop(stale, fails)
           IN /\ op' = "purge"
              /\ ret' = stale
              /\ attempts' = done.attempts
              /\ failed' = fails
              /\ revoked' = done.revoked
              /\ invites' = Without(invites, done.deleted)
              /\ reply' = "Revoked stale invites"
              /\ UNCHANGED <<now, policy, nextId, nonInviteVars>>

NextInvites ==
    \/ Tick
    \/ CreateInvite
    \/ UseInvite
    \/ invites_purge_purge_command

SpecInvites == InitInvites /\ [][NextInvites]_vars

----------------------------------------------------------------------------
(* Claims on the purge *)

\* C4: the purge awaits delete() on every selected stale invite once, in
\* the order selected, whether or not earlier deletions failed; the count it
\* reports is the number of deletions that succeeded, between 0 and the
\* number selected; the invites deleted are gone and the others remain.
C4_PurgeCountsSuccesses ==
    op = "purge" =>
        /\ attempts = [j \in 1..Len(ret) |-> ret[j].id]
        /\ \A j, k \in 1..Len(attempts) : attempts[j] = attempts[k] => j = k
        /\ failed \subseteq Range(attempts)
        /\ revoked = Len(ret) - Cardinality(failed)
        /\ 0 <= revoked /\ revoked <= Len(ret)
        /\ \A j \in 1..Len(ret) :
              (ret[j].id \in failed) <=> (ret[j] \in Range(invites))
        /\ reply = "Revoked stale invites"

\* a deletion failed and a later one succeeded
C4_Witness ==
    /\ op = "purge"
    /\ \E j, k \in 1..Len(attempts) :
          j < k /\ attempts[j] \in failed /\ attempts[k] \notin failed
    /\ revoked >= 1

\* C17: invites purge purge revokes every unused one-time-use invite that is
\* a day or older: after a purge such an invite is left in the guild only
\* when its deletion failed.
C17_PurgeRevokesDayOld ==
    op = "purge" =>
        \A invite \in Range(invites) :
            (invite.uses = 0 /\ invite.max_uses = 1
                /\ Days(now, invite.created_at) >= 1) => invite.id \in failed

----------------------------------------------------------------------------
(* The appeal roster of the appeals command *)

MaxRoleMembers == 2    \* most members a role has
MaxJoin == 3           \* latest join time of a member

UserIds == {"u1", "u2", "u3"}
RoleIds == {"A", "B"}

\* sequences without repetition of at most n elements of S
DistinctSeqs(S, n) ==
    UNION { { q \in [1..k -> S] : \A a, b \in 1..k : q[a] = q[b] => a = b } :
            k \in 0..n }

\* guild.get_role(role_id): None for a role the guild no longer has,
\* otherwise the role, of which the cog reads role.members.
Roles ==
    { [exists |-> FALSE, members |-> <<>>] } \cup
    { [exists |-> TRUE, members |-> q] : q \in DistinctSeqs(UserIds, MaxRoleMembers) }

\* `original += [user.id for user in role.members]` without the `if role:`
\* before it: None has no members, the command raises.
role_user_ids_unchecked(role) ==
    IF role.exists THEN [raised |-> FALSE, ids |-> role.members]
    ELSE [raised |-> TRUE, ids |-> <<>>]

\* if role: original += [user.id for user in role.members]
role_user_ids(role) ==
    IF role.exists THEN [raised |-> FALSE, ids |-> role.members]
    ELSE [raised |-> FALSE, ids |-> <<>>]

\* for role_id in appeal_roles: ...
RECURSIVE collect_original(_, _)
collect_original(role_ids, get_role) ==
    IF role_ids = <<>> THEN [raised |-> FALSE, ids |-> <<>>]
    ELSE LET before == collect_original(SubSeq(role_ids, 1, Len(role_ids) - 1),
                                        get_role)
             these == role_user_ids(get_role[role_ids[Len(role_ids)]])
         IN [raised |-> before.raised \/ these.raised,
             ids |-> before.ids \o these.ids]

\* the duplicates kept
remove_duplicates_none(original) == original

\* for user_id in original: if user_id not in user_ids: user_ids.append(user_id)
RECURSIVE remove_duplicates(_)
remove_duplicates(original) ==
    IF original = <<>> THEN <<>>
    ELSE LET user_ids == remove_duplicates(SubSeq(original, 1, Len(original) - 1))
             user_id == original[Len(original)]
         IN IF \E j \in 1..Len(user_ids) : user_ids[j] = user_id
            THEN user_ids
            ELSE Append(user_ids, user_id)

\* sorted(members, key=lambda m: m[0].joined_at): stable, ascending
RECURSIVE InsertMember(_, _, _)
InsertMember(s, x, joined) ==
    IF s = <<>> THEN <<x>>
    ELSE IF joined[s[Len(s)]] <= joined[x] THEN Append(s, x)
    ELSE Append(InsertMember(SubSeq(s, 1, Len(s) - 1), x, joined), s[Len(s)])

\* the roster left in the order of user_ids
sorted_by_joined_at_identity(seq, joined) == seq

RECURSIVE sorted_by_joined_at(_, _)
sorted_by_joined_at(seq, joined) ==
    IF seq = <<>> THEN <<>>
    ELSE InsertMember(sorted_by_joined_at(SubSeq(seq, 1, Len(seq) - 1), joined),
                      seq[Len(seq)], joined)

\* seq[i] of a Python list: i counts from 0, a negative i from the end;
\* anything else is an IndexError.
PyIndex(seq, i) ==
    IF 0 <= i /\ i < Len(seq) THEN [ok |-> TRUE, at |-> i + 1]
    ELSE IF i < 0 /\ -Len(seq) <= i THEN [ok |-> TRUE, at |-> Len(seq) + i + 1]
    ELSE [ok |-> FALSE, at |-> 0]

\* the test left out: every integer reaches members[appeal_id - 1]
appeal_id_positive_untested(id) == TRUE

\* if appeal_id > 0: ... else: raise IndexError
appeal_id_positive(id) == id > 0

\* The Last Joined field with the join time of the member looked up
last_joined_of_appeal(user_ids, shown_member, joined) == joined[shown_member]

\* value=human_timedelta(member.joined_at): `member` is the variable of the
\* loop over user_ids, after the loop the member of the last user id.
last_joined_shown(user_ids, shown_member, joined) ==
    joined[user_ids[Len(user_ids)]]

\* The arguments the command is given: none, or an integer.
AppealIds == { <<>> } \cup { <<p>> : p \in -1..(Cardinality(UserIds) + 1) }

InitRoster ==
    /\ appeal_roles \in DistinctSeqs(RoleIds, Cardinality(RoleIds))
    /\ guild_roles \in [RoleIds -> Roles]
    /\ joined_at \in [UserIds -> 1..MaxJoin]
    /\ appeal_id = <<>>
    /\ members = <<>>
    /\ appeal = "none"
    /\ range_named = <<>>
    /\ last_joined = 0
    /\ op = "none"
    /\ reply = "none"
    /\ InviteIdle
    /\ CodecIdle
    /\ NotesIdle
    /\ RestIdle

appeals_command ==
    /\ op = "none"
    /\ op' = "appeals"
    /\ \E id \in AppealIds :
        /\ appeal_id' = id
        /\ IF appeal_roles = <<>>
           THEN /\ reply' = "No appeal roles set"
                /\ UNCHANGED <<members, appeal, range_named, last_joined>>
           ELSE LET original == collect_original(appeal_roles, guild_roles)
                    user_ids == remove_duplicates(original.ids)
                    roster == sorted_by_joined_at(user_ids, joined_at)
                IN IF original.raised
                   THEN /\ reply' = "raised"
                        /\ UNCHANGED <<members, appeal, range_named, last_joined>>
                   ELSE /\ members' = roster
                        /\ IF Len(roster) = 0
                           THEN /\ reply' = "No Appeals Found"
                                /\ UNCHANGED <<appeal, range_named, last_joined>>
                           ELSE IF id = <<>>
                           THEN /\ reply' = "Pending Appeals"
                                /\ UNCHANGED <<appeal, range_named, last_joined>>
                           ELSE LET found == PyIndex(roster, id[1] - 1)
                                IN IF appeal_id_positive(id[1]) /\ found.ok
                                   THEN /\ reply' = "Appeal Info"
                                        /\ appeal' = roster[found.at]
                                        /\ last_joined' =
                                             last_joined_shown(user_ids, roster[found.at],
                                                               joined_at)
                                        /\ UNCHANGED range_named
                                   ELSE /\ reply' = "That Appeal ID is out of range"
                                        /\ range_named' = <<1, Len(roster)>>
                                        /\ UNCHANGED <<appeal, last_joined>>
    /\ UNCHANGED <<appeal_roles, guild_roles, joined_at>>
    /\ UNCHANGED <<invites, now, policy, ret, nextId, attempts, failed, revoked>>
    /\ UNCHANGED <<codecVars, notesVars, restVars>>

NextRoster == appeals_command

SpecRoster == InitRoster /\ [][NextRoster]_vars

----------------------------------------------------------------------------
(* Claims on the appeal roster *)

\* the command ran with at least one appeal role configured
RosterBuilt == op = "appeals" /\ appeal_roles # <<>>

\* the members holding at least one configured role the guild still has
Holders ==
    { u \in UserIds :
        \E j \in 1..Len(appeal_roles) :
            /\ guild_roles[appeal_roles[j]].exists
            /\ u \in Range(guild_roles[appeal_roles[j]].members) }

\* C5: the roster holds each member at most once, also one holding several
\* configured roles, and holds every member of an existing configured role.
C5_RosterDistinctComplete ==
    RosterBuilt =>
        /\ \A j, k \in 1..Len(members) : members[j] = members[k] => j = k
        /\ Range(members) = Holders

\* roles A: [u1, u2] and B: [u2, u3]: u2 counted once
C5_Witness ==
    /\ RosterBuilt
    /\ Len(appeal_roles) = 2
    /\ guild_roles["A"] = [exists |-> TRUE, members |-> <<"u1", "u2">>]
    /\ guild_roles["B"] = [exists |-> TRUE, members |-> <<"u2", "u3">>]
    /\ Len(members) = 3

\* C6: the roster ascends by join time, whatever the order of the roles and
\* of the members within a role.
C6_RosterSortedByJoin ==
    RosterBuilt =>
        \A j \in 1..(Len(members) - 1) :
            joined_at[members[j]] <= joined_at[members[j + 1]]

\* roles A: [u1, u2], B: [u2, u3] with u1 < u3 < u2 give [u1, u3, u2]
C6_Witness ==
    /\ RosterBuilt
    /\ appeal_roles = <<"A", "B">>
    /\ guild_roles["A"].members = <<"u1", "u2">>
    /\ guild_roles["B"].members = <<"u2", "u3">>
    /\ joined_at["u1"] < joined_at["u3"] /\ joined_at["u3"] < joined_at["u2"]
    /\ members = <<"u1", "u3", "u2">>

\* C7: with a configured role the guild no longer has, the command does not
\* raise and the roster is that of the members of the remaining roles.
C7_DeletedRoleSkipped ==
    (RosterBuilt /\ \E j \in 1..Len(appeal_roles) :
                        ~guild_roles[appeal_roles[j]].exists) =>
        /\ reply \in {"No Appeals Found", "Pending Appeals", "Appeal Info",
                       "That Appeal ID is out of range"}
        /\ \A j \in 1..Len(appeal_roles) :
              guild_roles[appeal_roles[j]].exists =>
                  Range(guild_roles[appeal_roles[j]].members) \subseteq Range(members)

\* the first configured role is gone, the second has two members
C7_Witness ==
    /\ RosterBuilt
    /\ Len(appeal_roles) = 2
    /\ ~guild_roles[appeal_roles[1]].exists
    /\ guild_roles[appeal_roles[2]].exists
    /\ Len(members) = 2
    /\ reply = "Pending Appeals"

\* the position asked for, once the command ran with one
Asked == op = "appeals" /\ appeal_id # <<>>

\* the lookup by position on a roster of the given length
LookupAsSpecified ==
    IF 1 <= appeal_id[1] /\ appeal_id[1] <= Len(members)
    THEN reply = "Appeal Info" /\ appeal = members[appeal_id[1]]
    ELSE /\ reply = "That Appeal ID is out of range"
         /\ range_named = <<1, Len(members)>>

\* C8 as claimed: position p gives the p-th entry of the roster exactly when
\* 1 <= p <= len(roster), and otherwise the out-of-range warning naming 1 to
\* len(roster).
C8_LookupByPosition == Asked => LookupAsSpecified

\* C8 as amended: so it is on a roster with at least one entry; on an empty
\* roster every position gets the reply that there are no appeals (or that
\* no appeal roles are set), and no out-of-range warning.
C8_LookupOnNonEmptyRoster ==
    Asked =>
        IF Len(members) > 0 THEN LookupAsSpecified
        ELSE /\ reply = IF appeal_roles = <<>> THEN "No appeal roles set"
                                                ELSE "No Appeals Found"
             /\ range_named = <<>>
             /\ appeal = "none"

\* position 4 on a roster of 3: out of range, naming 1 to 3
C8_Witness ==
    /\ Asked
    /\ Len(members) = 3
    /\ appeal_id = <<4>>
    /\ reply = "That Appeal ID is out of range"
    /\ range_named = <<1, 3>>

\* C18: the Last Joined field of the appeal-info reply is the join time of
\* the member at the asked position, the member the User and Top Role fields
\* describe.
C18_LastJoinedOfShownMember ==
    (op = "appeals" /\ reply = "Appeal Info") =>
        last_joined = last_joined_of_appeal(<<>>, appeal, joined_at)

----------------------------------------------------------------------------
(* The note text codec: urllib.parse.quote_plus and unquote_plus *)

MaxTextLen == 3        \* longest text given to the codec

\* The characters of the texts, as code points: z, space, +, %, /, and the
\* hex digits 2, 5, B, so that a text may itself look percent-encoded.
Alphabet == {122, 32, 43, 37, 47, 50, 53, 66}

\* the texts of at most n characters
TextsUpTo(n) == UNION { [1..k -> Alphabet] : k \in 0..n }

\* _ALWAYS_SAFE of urllib.parse: letters, digits and _ . - ~
AlwaysSafe(c) ==
    \/ 48 <= c /\ c <= 57
    \/ 65 <= c /\ c <= 90
    \/ 97 <= c /\ c <= 122
    \/ c \in {95, 46, 45, 126}

\* one digit of '%{:02X}'
HexDigit(n) == IF n < 10 THEN 48 + n ELSE 55 + n

\* the value of a hex digit of either case, -1 for any other character
HexValue(c) ==
    IF 48 <= c /\ c <= 57 THEN c - 48
    ELSE IF 65 <= c /\ c <= 70 THEN c - 55
    ELSE IF 97 <= c /\ c <= 102 THEN c - 87
    ELSE -1

\* quote(string, safe=' '): a character of one byte that is not safe becomes
\* %XX; the space is kept for quote_plus to replace.
RECURSIVE quote_keeping_space(_)
quote_keeping_space(string) ==
    IF string = <<>> THEN <<>>
    ELSE LET c == Head(string)
         IN (IF AlwaysSafe(c) \/ c = 32 THEN <<c>>
             ELSE <<37, HexDigit(c \div 16), HexDigit(c % 16)>>)
            \o quote_keeping_space(Tail(string))

\* string.replace(old, new) for single characters
ReplaceChar(string, old, new) ==
    [j \in 1..Len(string) |-> IF string[j] = old THEN new ELSE string[j]]

\* urllib.parse.quote_plus(string)
quote_plus(string) == ReplaceChar(quote_keeping_space(string), 32, 43)

\* bytes.decode('utf-8', 'replace') of one unquoted byte: an ASCII byte is
\* its character; the bytes from 0x80 that the hex digits of Alphabet can
\* spell (B2, B5, BB) are continuation bytes, each replaced by U+FFFD.
DecodeByte(b) == IF b < 128 THEN b ELSE 65533

\* urllib.parse.unquote(string): % followed by two hex digits is the byte
\* they spell; any other % stays.
RECURSIVE unquote(_)
unquote(string) ==
    IF string = <<>> THEN <<>>
    ELSE IF /\ Head(string) = 37
            /\ Len(string) >= 3
            /\ HexValue(string[2]) >= 0
            /\ HexValue(string[3]) >= 0
    THEN <<DecodeByte(16 * HexValue(string[2]) + HexValue(string[3]))>>
         \o unquote(SubSeq(string, 4, Len(string)))
    ELSE <<Head(string)>> \o unquote(Tail(string))

\* unquote alone: the + of a stored text is not turned back into a space
unquote_plus_keeping_plus(string) == unquote(string)

\* urllib.parse.unquote_plus(string)
unquote_plus(string) == unquote(ReplaceChar(string, 43, 32))

InitCodec ==
    /\ text \in TextsUpTo(MaxTextLen)
    /\ stored = <<>>
    /\ decoded = <<>>
    /\ op = "none"
    /\ reply = "none"
    /\ InviteIdle
    /\ RosterIdle
    /\ NotesIdle
    /\ RestIdle

\* the write side: notes add stores quote_plus(text)
Encode ==
    /\ op = "none"
    /\ op' = "encoded"
    /\ stored' = quote_plus(text)
    /\ UNCHANGED <<text, decoded, reply, selectVarsButOp, purgeVarsButReply,
                   rosterVars, notesVars, restVars>>

\* the read side: notes get shows unquote_plus(note['text'])
Decode ==
    /\ op = "encoded"
    /\ op' = "decoded"
    /\ decoded' = unquote_plus(stored)
    /\ UNCHANGED <<text, stored, reply, selectVarsButOp, purgeVarsButReply,
                   rosterVars, notesVars, restVars>>

NextCodec == Encode \/ Decode

SpecCodec == InitCodec /\ [][NextCodec]_vars

----------------------------------------------------------------------------
(* Claims on the codec *)

\* C9: decoding the encoded form of a text gives the text back, for every
\* text, with spaces, +, %, URL-reserved characters, and for the empty text.
C9_RoundTrip == op = "decoded" => decoded = text

\* the text "%+ ": every character of it is changed by the encoding
C9_Witness ==
    /\ op = "decoded"
    /\ text = <<37, 43, 32>>
    /\ stored = <<37, 50, 53, 37, 50, 66, 43>>
    /\ decoded = text

----------------------------------------------------------------------------
(* The notes table and the notes commands *)

MaxNotes == 2          \* most rows of the notes table

NoteUsers == {"u1", "u2"}

\* `*, text: Optional[str] = None` and `*, new_name: str`: the rest of the
\* message, never the empty string.  The texts typed here are "z", "+" and
\* "%2B": one the encoding keeps, one it changes, one that looks encoded.
NoteTexts == { <<122>>, <<43>>, <<37, 50, 66>> }

\* note_id: int
NoteIds == (-(MaxNotes + 1))..MaxNotes

\* f"Link {len(notes) + 1}"
LinkText(n) == <<76, 105, 110, 107, 32, 48 + n + 1>>

\* WHERE server_id = ? AND user_id = ?
RECURSIVE RowsOf(_, _)
RowsOf(rows, user) ==
    IF rows = <<>> THEN <<>>
    ELSE IF Head(rows).user_id = user THEN <<Head(rows)>> \o RowsOf(Tail(rows), user)
    ELSE RowsOf(Tail(rows), user)

\* ORDER BY created_at DESC
RECURSIVE InsertDesc(_, _)
InsertDesc(s, x) ==
    IF s = <<>> THEN <<x>>
    ELSE IF s[Len(s)].created_at >= x.created_at THEN Append(s, x)
    ELSE Append(InsertDesc(SubSeq(s, 1, Len(s) - 1), x), s[Len(s)])

RECURSIVE OrderByCreatedDesc(_)
OrderByCreatedDesc(rows) ==
    IF rows = <<>> THEN <<>>
    ELSE InsertDesc(OrderByCreatedDesc(SubSeq(rows, 1, Len(rows) - 1)),
                    rows[Len(rows)])

\* the rows of the user, newest first (None, and so falsy, when there are none)
_fetch_user_notes(rows, user) == OrderByCreatedDesc(RowsOf(rows, user))

\* the text column as notes add writes it
stored_text_of_add(supplied) == quote_plus(supplied)

\* the text column as notes rename writes it: new_name as given
stored_text_of_rename(new_name) == new_name

\* UPDATE notes SET text = ? WHERE server_id = ? AND user_id = ? AND text = ?
\* Each row also remembers the text its user last supplied for it.
UpdateText(rows, user, old_text, new_name) ==
    [j \in 1..Len(rows) |->
        IF rows[j].user_id = user /\ rows[j].text = old_text
        THEN [rows[j] EXCEPT !.text = stored_text_of_rename(new_name),
                             !.supplied = new_name]
        ELSE rows[j]]

InitNotes ==
    /\ notes = <<>>
    /\ note_member = "none"
    /\ shown = <<>>
    /\ note_id_arg = 0
    /\ new_name_arg = <<>>
    /\ op = "none"
    /\ reply = "none"
    /\ InviteIdle
    /\ RosterIdle
    /\ CodecIdle
    /\ RestIdle

notes_add_command ==
    /\ Len(notes) < MaxNotes
    /\ \E member \in NoteUsers, given \in { <<>> } \cup { <<t>> : t \in NoteTexts } :
          LET supplied == IF given = <<>>
                          THEN LinkText(Len(RowsOf(notes, member)))
                          ELSE given[1]
          IN /\ notes' = Append(notes, [user_id |-> member,
                                        text |-> stored_text_of_add(supplied),
                                        created_at |-> now,
                                        supplied |-> supplied])
             /\ note_member' = member
    /\ now' = now + 1
    /\ op' = "notes_add"
    /\ reply' = "Appeal Note Created"
    /\ note_id_arg' = 0
    /\ new_name_arg' = <<>>
    /\ UNCHANGED <<invites, policy, ret, purgeVarsButReply, rosterVars,
                   codecVars, shown, restVars>>

notes_rename_command ==
    /\ \E member \in NoteUsers, id \in NoteIds, name \in NoteTexts :
          LET found == _fetch_user_notes(notes, member)
              index == PyIndex(found, id + 1)
          IN /\ note_member' = member
             /\ note_id_arg' = id
             /\ new_name_arg' = name
             /\ IF found = <<>>
                THEN reply' = "has no appeal notes" /\ UNCHANGED notes
                ELSE IF index.ok
                THEN /\ notes' = UpdateText(notes, member,
                                            quote_plus(found[index.at].text),
                                            name)
                     /\ reply' = "Successfully renamed note"
                ELSE reply' = "Invalid note ID" /\ UNCHANGED notes
    /\ op' = "notes_rename"
    /\ UNCHANGED <<selectVarsButOp, purgeVarsButReply, rosterVars, codecVars,
                   shown, restVars>>

notes_get_command ==
    /\ \E member \in NoteUsers :
          LET found == _fetch_user_notes(notes, member)
          IN /\ note_member' = member
             /\ IF found = <<>>
                THEN reply' = "has no appeal notes" /\ shown' = <<>>
                ELSE /\ reply' = "Appeal Notes"
                     /\ shown' = [j \in 1..Len(found) |->
                                     unquote_plus(found[j].text)]
    /\ op' = "notes_get"
    /\ note_id_arg' = 0
    /\ new_name_arg' = <<>>
    /\ UNCHANGED <<selectVarsButOp, purgeVarsButReply, rosterVars, codecVars,
                   notes, restVars>>

NextNotes ==
    \/ notes_add_command
    \/ notes_rename_command
    \/ notes_get_command

SpecNotes == InitNotes /\ [][NextNotes]_vars

----------------------------------------------------------------------------
(* Claims on the notes *)

\* C10: after any notes add and notes rename commands, the text column of
\* every row is the percent-encoded form of the text the user supplied for
\* it, and notes get displays exactly the supplied texts.
C10_StoredEncodedOnce ==
    /\ \A j \in 1..Len(notes) : notes[j].text = quote_plus(notes[j].supplied)
    /\ (op = "notes_get" /\ reply = "Appeal Notes") =>
          LET found == _fetch_user_notes(notes, note_member)
          IN shown = [j \in 1..Len(found) |-> found[j].supplied]

\* a notes rename step whose note_id is the position, counted from 1, of one
\* of the member's notes in the list notes get displays
RenameOfExisting ==
    /\ op' = "notes_rename"
    /\ note_id_arg' \in 1..Len(_fetch_user_notes(notes, note_member'))

\* C11: notes rename with the id of one of the member's notes sets the text
\* of that note to the new name (stored as given or encoded), reports
\* success, and leaves every other note as it was.
C11_RenameChangesThatNote ==
    [][RenameOfExisting =>
         LET target == _fetch_user_notes(notes, note_member')[note_id_arg']
         IN /\ reply' = "Successfully renamed note"
            /\ Len(notes') = Len(notes)
            /\ \A j \in 1..Len(notes) :
                  IF notes[j] = target
                  THEN /\ notes'[j].text \in {new_name_arg', quote_plus(new_name_arg')}
                       /\ notes'[j].user_id = notes[j].user_id
                       /\ notes'[j].created_at = notes[j].created_at
                  ELSE notes'[j] = notes[j]]_vars

\* a notes rename step whose note_id is no position of the member's notes,
\* counted from 0 or from 1
RenameOutOfRange ==
    /\ op' = "notes_rename"
    /\ \/ note_id_arg' < 0
       \/ note_id_arg' > Len(_fetch_user_notes(notes, note_member'))

\* C12: notes rename with a note index out of range, negative ones included,
\* replies with a failure message and leaves every stored note unchanged.
C12_OutOfRangeRejected ==
    [][RenameOutOfRange =>
         /\ reply' \in {"Invalid note ID", "has no appeal notes"}
         /\ notes' = notes]_vars

-----------------------------------------------------------------------------
\* The join log: on_member_join and the joins command

MaxJoinEvents == 3

JoinUsers == {"u1", "u2"}

\* what the config row of the guild gives for the system channel:
\*   "no_config_row"  query_first finds no row for the guild
\*   "not_found"      retrieve_channel returns None
\*   "not_text"       a channel without message history (voice, category)
\*   "no_history"     a text channel holding no message
\*   "has_message"    a text channel whose last message is the join message
SystemChannels ==
    {"no_config_row", "not_found", "not_text", "no_history", "has_message"}

\* WHERE server_id = ? AND user_id = ?
RECURSIVE JoinsOf(_, _)
JoinsOf(rows, user) ==
    IF rows = <<>> THEN <<>>
    ELSE IF Head(rows).user_id = user THEN <<Head(rows)>> \o JoinsOf(Tail(rows), user)
    ELSE JoinsOf(Tail(rows), user)

\* ORDER BY joined_at DESC
RECURSIVE InsertJoinDesc(_, _)
InsertJoinDesc(s, x) ==
    IF s = <<>> THEN <<x>>
    ELSE IF s[Len(s)].joined_at >= x.joined_at THEN Append(s, x)
    ELSE Append(InsertJoinDesc(SubSeq(s, 1, Len(s) - 1), x), s[Len(s)])

RECURSIVE OrderByJoinedDesc(_)
OrderByJoinedDesc(rows) ==
    IF rows = <<>> THEN <<>>
    ELSE InsertJoinDesc(OrderByJoinedDesc(SubSeq(rows, 1, Len(rows) - 1)),
                        rows[Len(rows)])

_fetch_joins(rows, user) == OrderByJoinedDesc(JoinsOf(rows, user))

\* The outcome of the body of on_member_join for one member: the row it
\* inserts, if it gets that far, and the last thing it does.
\*   channel = await self._fetch_modlog_channel(...); if channel: ...
join_log_outcome(has_modlog, system, user, at) ==
    IF ~has_modlog THEN [inserted |-> <<>>, last |-> "nothing"]
    ELSE IF system = "no_config_row"
    THEN [inserted |-> <<>>, last |-> "TypeError"]
    ELSE IF system = "not_text"
    THEN [inserted |-> <<>>, last |-> "AttributeError"]
    ELSE IF system = "no_history"
    THEN [inserted |-> <<>>, last |-> "IndexError"]
    ELSE [inserted |-> <<[user_id |-> user, joined_at |-> at,
                          message_link |-> IF system = "has_message"
                                           THEN "system message"
                                           ELSE "bot message"]>>,
          last |-> "inserted"]

InitJoins ==
    /\ joins = <<>>
    /\ join_events = 0
    /\ modlog_joins \in BOOLEAN
    /\ system_channel \in SystemChannels
    /\ op = "none"
    /\ reply = "none"
    /\ ret = <<>>
    /\ invites = <<>> /\ now = 0 /\ policy = StaleDays
    /\ nextId = 1 /\ attempts = <<>> /\ failed = {} /\ revoked = 0
    /\ RosterIdle /\ CodecIdle /\ NotesIdle
    /\ BulkIdle /\ InviteCmdIdle /\ HandoutIdle

\* the joins modlog channel or the system channel of the guild is set anew
ConfigureChannels ==
    /\ modlog_joins' \in BOOLEAN
    /\ system_channel' \in SystemChannels
    /\ op' = "configure"
    /\ reply' = "none"
    /\ UNCHANGED <<joins, join_events, ret>>
    /\ UNCHANGED <<invites, now, policy, purgeVarsButReply, rosterVars,
                   codecVars, notesVars, bulkVars, inviteCmdVars, handoutVars>>

\* a member joins the guild; the join is the join_events-th observed
on_member_join ==
    /\ join_events < MaxJoinEvents
    /\ \E member \in JoinUsers :
          LET outcome == join_log_outcome(modlog_joins, system_channel, member,
                                          join_events + 1)
          IN /\ joins' = joins \o outcome.inserted
             /\ reply' = IF outcome.last # "inserted" THEN outcome.last
                         ELSE IF Len(_fetch_joins(joins', member)) > 1
                         THEN "Previous Join Log Found"
                         ELSE "New Ban Appeal"
    /\ join_events' = join_events + 1
    /\ op' = "member_join"
    /\ UNCHANGED <<modlog_joins, system_channel, ret>>
    /\ UNCHANGED <<invites, now, policy, purgeVarsButReply, rosterVars,
                   codecVars, notesVars, bulkVars, inviteCmdVars, handoutVars>>

joins_command ==
    /\ \E user \in JoinUsers :
          /\ ret' = _fetch_joins(joins, user)
          /\ reply' = IF ret' # <<>> THEN "Found Join Logs" ELSE "No join logs"
    /\ op' = "joins"
    /\ UNCHANGED joinVars
    /\ UNCHANGED <<invites, now, policy, purgeVarsButReply, rosterVars,
                   codecVars, notesVars, bulkVars, inviteCmdVars, handoutVars>>

NextJoins ==
    \/ ConfigureChannels
    \/ on_member_join
    \/ joins_command

SpecJoins == InitJoins /\ [][NextJoins]_vars

\* C13: every observed member join appends exactly one row to the join log
\* whatever the modlog and system channel configuration, no other step
\* changes the log, and the joins command reads a user's rows in descending
\* joined-at order.
C13_OneRowPerJoin ==
    [][/\ (join_events' = join_events + 1) =>
             /\ Len(joins') = Len(joins) + 1
             /\ SubSeq(joins', 1, Len(joins)) = joins
             /\ joins'[Len(joins')].joined_at = join_events'
       /\ (join_events' = join_events) => joins' = joins
       /\ (op' = "joins") =>
             \A j, k \in 1..Len(ret') :
                 j < k => ret'[j].joined_at >= ret'[k].joined_at]_vars

-----------------------------------------------------------------------------
\* unbanall, banall and kickall

MaxTargets == 3

BulkUsers == {"u1", "u2"}

\* users: commands.Greedy[discord.User], as many as the message names
TargetLists == UNION { [1..n -> BulkUsers] : n \in 0..MaxTargets }

\* for user in users:
\*     await ctx.guild.ban(user, ...)      (unban, member.kick)
\*     banned.append(user)
\* fails holds the positions whose call raises; nothing in the loop or around
\* it catches, so the first raise ends the command.
RECURSIVE BulkLoop(_, _, _)
BulkLoop(users, fails, from) ==
    IF from > Len(users) THEN [issued |-> <<>>, done |-> <<>>, raised |-> FALSE]
    ELSE IF from \in fails
    THEN [issued |-> <<users[from]>>, done |-> <<>>, raised |-> TRUE]
    ELSE LET rest == BulkLoop(users, fails, from + 1)
         IN [issued |-> <<users[from]>> \o rest.issued,
             done |-> <<users[from]>> \o rest.done,
             raised |-> rest.raised]

\* One of the three commands: kind names it, verb is the word of its reply.
\* The reply is the verb with the number the message gives.
bulk_command(kind, verb) ==
    /\ \E users \in TargetLists :
        \E fails \in SUBSET (1..Len(users)) :
          LET loop == BulkLoop(users, fails, 1)
          IN /\ targets' = users
             /\ bulk_fails' = fails
             /\ IF users = <<>>
                THEN /\ reply' = <<"send_help", 0>>
                     /\ issued' = <<>>
                     /\ succeeded' = <<>>
                ELSE /\ issued' = loop.issued
                     /\ succeeded' = loop.done
                     /\ reply' = IF loop.raised THEN <<"raised", 0>>
                                 ELSE <<verb, Len(loop.done)>>
    /\ op' = kind
    /\ UNCHANGED <<selectVarsButOp, purgeVarsButReply, rosterVars, codecVars,
                   notesVars, joinVars, inviteCmdVars, handoutVars>>

unbanall_command == bulk_command("unbanall", "Unbanned")

banall_command == bulk_command("banall", "Banned")

kickall_command == bulk_command("kickall", "Kicked")

InitBulk ==
    /\ BulkIdle
    /\ op = "none"
    /\ reply = <<"none", 0>>
    /\ ret = <<>>
    /\ invites = <<>> /\ now = 0 /\ policy = StaleDays
    /\ nextId = 1 /\ attempts = <<>> /\ failed = {} /\ revoked = 0
    /\ RosterIdle /\ CodecIdle /\ NotesIdle
    /\ JoinIdle /\ InviteCmdIdle /\ HandoutIdle

NextBulk ==
    \/ unbanall_command
    \/ banall_command
    \/ kickall_command

SpecBulk == InitBulk /\ [][NextBulk]_vars

\* the targets whose call did not fail, in list order
RECURSIVE NotFailing(_, _, _)
NotFailing(users, fails, from) ==
    IF from > Len(users) THEN <<>>
    ELSE IF from \in fails THEN NotFailing(users, fails, from + 1)
    ELSE <<users[from]>> \o NotFailing(users, fails, from + 1)

\* C14: a bulk command given targets issues one call per target in list
\* order, those after a failed call included, and its final message reports
\* the number of targets whose call succeeded.
C14_ContinuesPastFailures ==
    (op \in {"unbanall", "banall", "kickall"} /\ targets # <<>>) =>
        /\ issued = targets
        /\ succeeded = NotFailing(targets, bulk_fails, 1)
        /\ reply[1] \in {"Unbanned", "Banned", "Kicked"}
        /\ reply[2] = Len(targets) - Cardinality(bulk_fails)

-----------------------------------------------------------------------------
\* The invite command

\* mode: Optional[str], as code points; <<>> stands for None (and for "",
\* which is as falsy).  "new", "NEW", " New " (quoted), "newer".
Modes ==
    { <<>>,
      <<110, 101, 119>>,
      <<78, 69, 87>>,
      <<32, 78, 101, 119, 32>>,
      <<110, 101, 119, 101, 114>> }

\* str.strip(): whitespace off both ends
Whitespace == {9, 10, 11, 12, 13, 32}

RECURSIVE Strip(_)
Strip(s) ==
    IF s = <<>> THEN <<>>
    ELSE IF Head(s) \in Whitespace THEN Strip(Tail(s))
    ELSE IF s[Len(s)] \in Whitespace THEN Strip(SubSeq(s, 1, Len(s) - 1))
    ELSE s

\* str.lower() on the letters A to Z
Lower(s) == [j \in 1..Len(s) |-> IF s[j] \in 65..90 THEN s[j] + 32 ELSE s[j]]

force_new_exact(m) == m = <<110, 101, 119>>

\* if mode and mode.strip().lower() == "new"
force_new(m) == m # <<>> /\ Lower(Strip(m)) = <<110, 101, 119>>

\* channel.create_invite(max_uses=1, ...): the invite the guild then has
create_invite(id, at) ==
    [id |-> id, uses |-> 0, max_uses |-> 1, created_at |-> at]

\* _create_one_time_invite_for_invite_channel: the invite of the guild's
\* invite channel, or ValueError when _fetch_channel_type gives None
_create_one_time_invite_for_invite_channel(has_channel, id, at) ==
    IF has_channel THEN [raised |-> FALSE, invite |-> <<create_invite(id, at)>>]
    ELSE [raised |-> TRUE, invite |-> <<>>]

\* The body of invite_command up to ctx.send: the invite it sends, whether
\* it is a stale one, the invite it had created, and whether the helper's
\* ValueError ended it (nothing in the command catches).
invite_command_body(m, guildInvites, utcnow, has_channel, id) ==
    LET stale == IF force_new(m) THEN <<>>
                 ELSE _fetch_stale_one_time_invites(guildInvites, utcnow)
        made == _create_one_time_invite_for_invite_channel(has_channel, id, utcnow)
    IN IF stale # <<>>
       THEN [fetched |-> stale, invite |-> <<stale[1]>>, stale |-> TRUE,
             created |-> <<>>, raised |-> FALSE]
       ELSE [fetched |-> stale, invite |-> made.invite, stale |-> FALSE,
             created |-> made.invite, raised |-> made.raised]

InitInviteCmd ==
    /\ invites \in InviteLists
    /\ now \in NowTimes
    /\ policy = StaleDays
    /\ invite_channel \in BOOLEAN
    /\ op = "none"
    /\ ret = <<>>
    /\ nextId = Len(invites) + 1
    /\ attempts = <<>>
    /\ failed = {}
    /\ revoked = 0
    /\ reply = "none"
    /\ mode = <<>>
    /\ sent_invite = <<>>
    /\ using_stale_invite = FALSE
    /\ created = <<>>
    /\ RosterIdle /\ CodecIdle /\ NotesIdle
    /\ JoinIdle /\ BulkIdle /\ HandoutIdle

invite_command ==
    /\ op = "none"
    /\ op' = "invite"
    /\ \E m \in Modes :
          LET body == invite_command_body(m, invites, now, invite_channel, nextId)
          IN /\ mode' = m
             /\ ret' = body.fetched
             /\ sent_invite' = body.invite
             /\ using_stale_invite' = body.stale
             /\ created' = body.created
             /\ invites' = invites \o body.created
             /\ nextId' = nextId + Len(body.created)
             /\ reply' = IF body.raised THEN "raised ValueError"
                         ELSE IF body.stale
                         THEN "Ban Appeals Invite (using stale invite)"
                         ELSE "Ban Appeals Invite"
    /\ UNCHANGED <<now, policy, attempts, failed, revoked, invite_channel>>
    /\ UNCHANGED <<rosterVars, codecVars, notesVars, joinVars, bulkVars,
                   handoutVars>>

NextInviteCmd == invite_command

SpecInviteCmd == InitInviteCmd /\ [][NextInviteCmd]_vars

\* Claims on the invite command

\* the guild's invites as the command found them
InvitesBefore == Range(invites) \ Range(created)

\* the invites the command could reuse
StaleBefore == { invite \in InvitesBefore : StaleBy(invite, StaleDays) }

\* mode is "new" in some letter case, whitespace around it aside
SpelledNew ==
    mode \in { <<110, 101, 119>>, <<78, 69, 87>>, <<32, 78, 101, 119, 32>> }

\* the command reuses: it sends the oldest stale invite, marked as stale,
\* and creates none
ReusedOldestStale ==
    /\ created = <<>>
    /\ Len(sent_invite) = 1
    /\ sent_invite[1] \in StaleBefore
    /\ \A invite \in StaleBefore :
          sent_invite[1].created_at <= invite.created_at
    /\ using_stale_invite
    /\ reply = "Ban Appeals Invite (using stale invite)"

\* the command creates: it sends a new unused max_uses = 1 invite, not
\* marked as stale
CreatedSingleUse ==
    /\ Len(created) = 1
    /\ created[1].max_uses = 1
    /\ created[1].uses = 0
    /\ \A invite \in InvitesBefore : invite.id # created[1].id
    /\ created[1] \in Range(invites)
    /\ sent_invite = created
    /\ ~using_stale_invite
    /\ reply = "Ban Appeals Invite"

\* the command ends in the helper's ValueError: nothing created or sent
EndedInValueError ==
    /\ created = <<>>
    /\ sent_invite = <<>>
    /\ ~using_stale_invite
    /\ reply = "raised ValueError"
    /\ Range(invites) = InvitesBefore

\* C15: with no valid invite channel configured the invite command catches
\* the condition the helper raises: the command ends with a reply or in
\* silence, never in the raised condition.
C15_RaiseIsCaught ==
    (op = "invite" /\ ~invite_channel) => reply # "raised ValueError"

-----------------------------------------------------------------------------
\* Invocations of the invite command over the life of a guild's invites.
\* An invocation is a coroutine: it gives way at each await (guild.invites(),
\* channel.create_invite, ctx.send), where the guild, the clock and other
\* invocations move on.

MaxInvocations == 2

Invocations == 1..MaxInvocations

\* no mode, and "new"
HandoutModes == { <<>>, <<110, 101, 119>> }

InitHandout ==
    /\ invites = <<>>
    /\ now = 0
    /\ policy = StaleDays
    /\ op = "none"
    /\ ret = <<>>
    /\ nextId = 1
    /\ attempts = <<>>
    /\ failed = {}
    /\ revoked = 0
    /\ reply = "none"
    /\ invite_channel \in BOOLEAN
    /\ mode = [i \in Invocations |-> <<>>]
    /\ sent_invite = [i \in Invocations |-> <<>>]
    /\ using_stale_invite = [i \in Invocations |-> FALSE]
    /\ created = <<>>
    /\ pc = [i \in Invocations |-> "start"]
    /\ stale_invites = [i \in Invocations |-> <<>>]
    /\ handed_out = {}
    /\ RosterIdle /\ CodecIdle /\ NotesIdle /\ JoinIdle /\ BulkIdle

\* invocation i up to its first await that changes or hands out something:
\* the mode test and, unless "new" is forced, the fetch of the stale invites
\* and the choice of the oldest
invite_begin(i) ==
    /\ pc[i] = "start"
    /\ \E m \in HandoutModes, listing \in Orderings(invites) :
          LET stale == IF force_new(m) THEN <<>>
                       ELSE _fetch_stale_one_time_invites(listing, now)
          IN /\ mode' = [mode EXCEPT ![i] = m]
             /\ stale_invites' = [stale_invites EXCEPT ![i] = stale]
             /\ IF stale # <<>>
                THEN /\ sent_invite' = [sent_invite EXCEPT ![i] = <<stale[1]>>]
                     /\ using_stale_invite' = [using_stale_invite EXCEPT ![i] = TRUE]
                     /\ pc' = [pc EXCEPT ![i] = "send"]
                ELSE /\ pc' = [pc EXCEPT ![i] = "create"]
                     /\ UNCHANGED <<sent_invite, using_stale_invite>>
    /\ op' = "invite_begin"
    /\ UNCHANGED <<invites, now, policy, ret, purgeVars, invite_channel,
                   created, handed_out>>
    /\ UNCHANGED <<rosterVars, codecVars, notesVars, joinVars, bulkVars>>

\* invite = await self._create_one_time_invite_for_invite_channel(...)
invite_create(i) ==
    /\ pc[i] = "create"
    /\ nextId <= MaxInvites
    /\ LET made == _create_one_time_invite_for_invite_channel(invite_channel,
                                                              nextId, now)
       IN /\ invites' = invites \o made.invite
          /\ created' = created \o made.invite
          /\ nextId' = nextId + Len(made.invite)
          /\ sent_invite' = [sent_invite EXCEPT ![i] = made.invite]
          /\ pc' = [pc EXCEPT ![i] = IF made.raised THEN "raised" ELSE "send"]
          /\ reply' = IF made.raised THEN "raised ValueError" ELSE reply
    /\ op' = "invite_create"
    /\ UNCHANGED <<now, policy, ret, attempts, failed, revoked, invite_channel,
                   mode, using_stale_invite, stale_invites, handed_out>>
    /\ UNCHANGED <<rosterVars, codecVars, notesVars, joinVars, bulkVars>>

\* await ctx.send(invite, embed=embed): the invite is handed out
invite_send(i) ==
    /\ pc[i] = "send"
    /\ handed_out' = handed_out \cup {[by |-> i, id |-> sent_invite[i][1].id]}
    /\ pc' = [pc EXCEPT ![i] = "done"]
    /\ reply' = IF using_stale_invite[i]
                THEN "Ban Appeals Invite (using stale invite)"
                ELSE "Ban Appeals Invite"
    /\ op' = "invite_send"
    /\ UNCHANGED <<invites, now, policy, ret, nextId, attempts, failed, revoked,
                   invite_channel, mode, sent_invite, using_stale_invite,
                   created, stale_invites>>
    /\ UNCHANGED <<rosterVars, codecVars, notesVars, joinVars, bulkVars>>

NextHandout ==
    \/ \E i \in Invocations : invite_begin(i)
    \/ \E i \in Invocations : invite_create(i)
    \/ \E i \in Invocations : invite_send(i)
    \/ Tick
    \/ CreateInvite
    \/ UseInvite

SpecHandout == InitHandout /\ [][NextHandout]_vars

\* C19: an invite is handed out to at most one invocation of the invite
\* command while it is unused: no two invocations have sent the same invite
\* that is still in the guild with no use.
C19_HandedOutOnce ==
    \A a, b \in handed_out :
        (/\ a.id = b.id
         /\ \E invite \in Range(invites) : invite.id = a.id /\ invite.uses = 0)
            => a.by = b.by

=============================================================================
